---- MODULE Spec2Model ----
(***************************************************************************)
(* Skill discovery and context bootstrap of the skills repository:         *)
(*   - lib/skills-core.js         extractFrontmatter, listSkills           *)
(*   - the OpenCode plugin        stripFrontmatter, loadSkillFiles,        *)
(*                                getBootstrap, system.transform handler   *)
(*   - hooks/session-start.sh     the SessionStart shell hook              *)
(*                                                                         *)
(* A string is a sequence of one-character strings.  Literal template text *)
(* that no algorithm inspects is written as one multi-character element.   *)
(***************************************************************************)
EXTENDS Integers, Sequences, FiniteSets, TLC

VARIABLES
  file,        \* parser run: the SKILL.md handed to the parsers
  fm,          \* parser run: what extractFrontmatter returned
  stripped,    \* parser run: what stripFrontmatter returned
  content,     \* hook escaping run: CONTENT
  escaped,     \* hook escaping run: ESCAPED
  decoded,     \* hook escaping run: the host's JSON decoding of ESCAPED
  root,        \* filesystem: what the skills root path is
  entries,     \* filesystem: what skills/<name> is, for every name
  system,      \* the host's output.system list
  pc,          \* where the plugin's handler stands
  skillFiles,  \* the handler's skillFiles, between the scan and the reads
  raced,       \* history: the filesystem changed between that scan and the reads
  last         \* what the operation that ran last returned or emitted

vars == <<file, fm, stripped, content, escaped, decoded,
          root, entries, system, pc, skillFiles, raced, last>>

parseVars == <<file, fm, stripped>>
escVars == <<content, escaped, decoded>>
fsVars == <<root, entries, system, pc, skillFiles, raced, last>>

-----------------------------------------------------------------------------
(* Characters *)

NL == "\n"
DQ == "\""
SQ == "'"
BS == "\\"
SP == " "

\* An optional value: nothing yet, or one value.
Nothing == <<>>
Just(x) == <<x>>
IsJust(o) == Len(o) = 1
The(o) == o[1]

Min(S) == CHOOSE x \in S : \A y \in S : x <= y
Max(S) == CHOOSE x \in S : \A y \in S : x >= y

\* All sequences over S of length at most n.
SeqsUpTo(S, n) == UNION {[1..k -> S] : k \in 0..n}

-----------------------------------------------------------------------------
(* JavaScript string primitives used by the parsers *)

IsWs(c) == c \in {SP, NL}

\* String.prototype.trim
trim(s) ==
  LET keep == {i \in 1..Len(s) : ~IsWs(s[i])}
  IN  IF keep = {} THEN <<>> ELSE SubSeq(s, Min(keep), Max(keep))

StartsWithAt(s, i, p) ==
  /\ i >= 1
  /\ i + Len(p) - 1 <= Len(s)
  /\ SubSeq(s, i, i + Len(p) - 1) = p

\* String.prototype.indexOf for a one-character needle: 0-based, -1 if absent.
indexOf(s, c) ==
  LET hit == {i \in 1..Len(s) : s[i] = c}
  IN  IF hit = {} THEN -1 ELSE Min(hit) - 1

\* String.prototype.split for a one-character separator.
RECURSIVE split(_, _)
split(s, c) ==
  LET i == indexOf(s, c)
  IN  IF i = -1 THEN <<s>>
      ELSE <<SubSeq(s, 1, i)>> \o split(SubSeq(s, i + 2, Len(s)), c)

OpenDelim == <<"-", "-", "-", NL>>
CloseDelim == <<NL, "-", "-", "-", NL>>

\* content.match(/^---\n([\s\S]*?)\n---\n([\s\S]*)$/): the lazy group ends at
\* the first closing delimiter line after the opening one.
FrontmatterMatch(s) ==
  LET ends == {i \in 5..Len(s) : StartsWithAt(s, i, CloseDelim)}
  IN  IF StartsWithAt(s, 1, OpenDelim) /\ ends # {}
      THEN [matched |-> TRUE,
            header |-> SubSeq(s, 5, Min(ends) - 1),
            rest |-> SubSeq(s, Min(ends) + 5, Len(s))]
      ELSE [matched |-> FALSE, header |-> <<>>, rest |-> <<>>]

IsQuote(c) == c \in {SQ, DQ}

\* value.replace(/^['"]|['"]$/g, ''): a leading quote goes, and a trailing
\* quote goes, each on its own.
StripQuotes(v) ==
  LET lead == IF Len(v) >= 1 /\ IsQuote(v[1]) THEN 1 ELSE 0
      trail == IF Len(v) >= 2 /\ IsQuote(v[Len(v)]) THEN 1 ELSE 0
  IN  SubSeq(v, 1 + lead, Len(v) - trail)

\* The loop over the header lines: frontmatter[key] = value, later lines
\* overwriting earlier ones.
RECURSIVE ParseHeaderLines(_, _)
ParseHeaderLines(lines, frontmatter) ==
  IF lines = <<>> THEN frontmatter
  ELSE LET line == Head(lines)
           sep == indexOf(line, ":")
           key == trim(SubSeq(line, 1, sep))
           value == StripQuotes(trim(SubSeq(line, sep + 2, Len(line))))
       IN  IF sep <= 0 THEN ParseHeaderLines(Tail(lines), frontmatter)
           ELSE ParseHeaderLines(Tail(lines),
                  (key :> value) @@ [k \in DOMAIN frontmatter \ {key} |-> frontmatter[k]])

NameKey == <<"n", "a", "m", "e">>
DescriptionKey == <<"d", "e", "s", "c", "r", "i", "p", "t", "i", "o", "n">>

\* frontmatter.<key> || ''
Field(frontmatter, key) ==
  IF key \in DOMAIN frontmatter THEN frontmatter[key] ELSE <<>>

Unreadable == [readable |-> FALSE, text |-> <<>>]
Readable(t) == [readable |-> TRUE, text |-> t]

\* return { name: '', description: '', content }
NoMatchResult(text) ==
  [name |-> <<>>, description |-> <<>>, content |-> text]

\* extractFrontmatter(filePath), f being what is at filePath.
extractFrontmatter(f) ==
  IF ~f.readable
  THEN [name |-> <<>>, description |-> <<>>, content |-> <<>>]
  ELSE LET m == FrontmatterMatch(f.text)
           frontmatter == ParseHeaderLines(split(m.header, NL), <<>>)
       IN  IF ~m.matched THEN NoMatchResult(f.text)
           ELSE [name |-> Field(frontmatter, NameKey),
                 description |-> Field(frontmatter, DescriptionKey),
                 content |-> trim(m.rest)]

\* stripFrontmatter(content) of the plugin.
stripFrontmatter(text) ==
  LET m == FrontmatterMatch(text)
  IN  IF m.matched THEN trim(m.rest) ELSE trim(text)

-----------------------------------------------------------------------------
(* The shell hook's escaping, and the host's decoding of it *)

\* ${VAR//c/rep} for a one-character pattern c.
RECURSIVE ReplaceAll(_, _, _)
ReplaceAll(s, c, rep) ==
  IF s = <<>> THEN <<>>
  ELSE (IF Head(s) = c THEN rep ELSE <<Head(s)>>) \o ReplaceAll(Tail(s), c, rep)

\* The three substitutions with the newline handled first.
EscapeNewlineFirst(s) ==
  LET e1 == ReplaceAll(s, NL, <<BS, "n">>)
      e2 == ReplaceAll(e1, BS, <<BS, BS>>)
  IN  ReplaceAll(e2, DQ, <<BS, DQ>>)

\* ESCAPED=${CONTENT//$'\\'/\\\\}; ${ESCAPED//$'"'/\\\"}; ${ESCAPED//$'\n'/\\n}
Escape(s) ==
  LET e1 == ReplaceAll(s, BS, <<BS, BS>>)
      e2 == ReplaceAll(e1, DQ, <<BS, DQ>>)
  IN  ReplaceAll(e2, NL, <<BS, "n">>)

\* The host reading the characters between the quotes of a JSON string
\* (RFC 8259): \\ \" \n are the escapes of this alphabet; a bare quote ends
\* the string early, a bare newline and any other escape are malformed.
RECURSIVE JsonUnescape(_)
JsonUnescape(e) ==
  IF e = <<>> THEN [ok |-> TRUE, text |-> <<>>]
  ELSE IF Head(e) = BS
  THEN IF Len(e) < 2 \/ e[2] \notin {BS, DQ, "n"}
       THEN [ok |-> FALSE, text |-> <<>>]
       ELSE LET r == JsonUnescape(SubSeq(e, 3, Len(e)))
                c == IF e[2] = "n" THEN NL ELSE e[2]
            IN  [ok |-> r.ok, text |-> IF r.ok THEN <<c>> \o r.text ELSE <<>>]
  ELSE IF Head(e) \in {DQ, NL}
  THEN [ok |-> FALSE, text |-> <<>>]
  ELSE LET r == JsonUnescape(Tail(e))
       IN  [ok |-> r.ok, text |-> IF r.ok THEN <<Head(e)>> \o r.text ELSE <<>>]

-----------------------------------------------------------------------------
(* The filesystem under the skills root *)

NameA == <<"a">>
NameAB == <<"a", "-", "b">>
NameUX == <<"_", "x">>
NameTemplates == <<"_", "t", "e", "m", "p", "l", "a", "t", "e", "s">>
Names == {NameA, NameAB, NameUX, NameTemplates}

\* skills/<name>/SKILL.md with a header declaring the name Foo.
DocFoo ==
  OpenDelim \o NameKey \o <<":", SP, "F", "o", "o">> \o CloseDelim
    \o <<"H", "e", "l", "l", "o", NL>>
DocTexts == {DocFoo}

\* What skills/<name> is: nothing, a plain file, or a directory whose SKILL.md
\* is missing, a readable file, a file without read permission, or a directory.
Entry(k, t) == [kind |-> k, text |-> t]
Absent == Entry("absent", <<>>)
EntryStates ==
  {Entry(k, <<>>) : k \in {"absent", "file", "nodoc", "unreadable", "isdir"}}
    \cup {Entry("doc", d) : d \in DocTexts}

NoEntries == [n \in Names |-> Absent]
PresentNames(ents) == {n \in Names : ents[n].kind # "absent"}

\* Dirent.isDirectory()
isDirectory(e) == e.kind \in {"nodoc", "doc", "unreadable", "isdir"}

\* fs.existsSync(path.join(dir, name, 'SKILL.md'))
existsSync(e) == e.kind \in {"doc", "unreadable", "isdir"}

\* What a read of skills/<name>/SKILL.md meets: a readable text, or an error
\* (EACCES, EISDIR, ENOENT).
SkillFileOf(e) == IF e.kind = "doc" THEN Readable(e.text) ELSE Unreadable

\* The orders in which a set can be listed.
Orders(S) ==
  {f \in [1..Cardinality(S) -> S] : \A i, j \in 1..Cardinality(S) : i # j => f[i] # f[j]}

\* Array.prototype.filter, keep being the elements the callback accepts.
RECURSIVE FilterSeq(_, _)
FilterSeq(seq, keep) ==
  IF seq = <<>> THEN <<>>
  ELSE (IF Head(seq) \in keep THEN <<Head(seq)>> ELSE <<>>) \o FilterSeq(Tail(seq), keep)

RECURSIVE Join(_, _)
Join(parts, sep) ==
  IF parts = <<>> THEN <<>>
  ELSE IF Len(parts) = 1 THEN parts[1]
  ELSE parts[1] \o sep \o Join(Tail(parts), sep)

\* The code unit of the characters that names and paths are ordered by.
CodeOf(c) ==
  CASE c = "-" -> 45 [] c = "/" -> 47 [] c = "_" -> 95
    [] c = "a" -> 97 [] c = "b" -> 98 [] c = "e" -> 101 [] c = "l" -> 108
    [] c = "m" -> 109 [] c = "p" -> 112 [] c = "s" -> 115 [] c = "t" -> 116
    [] c = "x" -> 120

\* s < t, comparing code unit by code unit; a proper prefix comes first.
RECURSIVE StringLess(_, _)
StringLess(s, t) ==
  IF t = <<>> THEN FALSE
  ELSE IF s = <<>> THEN TRUE
  ELSE IF Head(s) = Head(t) THEN StringLess(Tail(s), Tail(t))
  ELSE CodeOf(Head(s)) < CodeOf(Head(t))

-----------------------------------------------------------------------------
(* What an operation returned or emitted *)

Outcome(op, outcome, names, items, text) ==
  [op |-> op, outcome |-> outcome, names |-> names, items |-> items, text |-> text]
NoResult == Outcome("none", "none", <<>>, <<>>, <<>>)

-----------------------------------------------------------------------------
(* The OpenCode plugin *)

startsWithUnderscore(name) == Len(name) >= 1 /\ name[1] = "_"

\* loadSkillFiles once the root exists, listing being what readdirSync
\* returned: the names of the {name, file} pairs kept by the two filters.
loadSkillFiles(listing, ents) ==
  LET directories == {n \in Names : isDirectory(ents[n]) /\ ~startsWithUnderscore(n)}
      existing == {n \in Names : existsSync(ents[n])}
  IN  FilterSeq(FilterSeq(listing, directories), existing)

\* A block labelled by the name the document declares, when it declares one.
BlockByDeclaredName(name, full) ==
  LET declared == extractFrontmatter(Readable(full)).name
  IN  [label |-> IF declared # <<>> THEN declared ELSE name,
       body |-> stripFrontmatter(full)]

\* `# Skill: ${name}\n\n${stripFrontmatter(full)}`, as its two parts.
Block(name, full) == [label |-> name, body |-> stripFrontmatter(full)]

BlockText(b) == <<"# Skill: ">> \o b.label \o <<NL, NL>> \o b.body

\* The template literal getBootstrap returns.
Wrap(merged) ==
  <<"<EXTREMELY_IMPORTANT>\nYou have local skills available.\n\nThe content below is already loaded (do not load it twice):\n\n">>
    \o merged \o <<"\n</EXTREMELY_IMPORTANT>">>

\* getBootstrap after loadSkillFiles returned files: null, a thrown read
\* error, or the wrapped text.
getBootstrap(files, ents) ==
  IF files = <<>> THEN Outcome("plugin", "null", files, <<>>, <<>>)
  ELSE IF \E i \in 1..Len(files) : ~SkillFileOf(ents[files[i]]).readable
  THEN Outcome("plugin", "threw", files, <<>>, <<>>)
  ELSE LET blocks == [i \in 1..Len(files) |-> Block(files[i], ents[files[i]].text)]
           merged == Join([i \in 1..Len(files) |-> BlockText(blocks[i])], <<NL, NL>>)
       IN  Outcome("plugin", "bootstrap", files, blocks, Wrap(merged))

\* output.system: undefined, or a list.
Undefined == [defined |-> FALSE, items |-> <<>>]
List(items) == [defined |-> TRUE, items |-> items]

\* A handler that assigns the list instead of appending to it.
AssignSystem(sys, bootstrap) == List(<<bootstrap>>)

\* A handler that reports the absence of skills to the host.
InjectReporting(sys, got) ==
  IF got.outcome = "bootstrap" THEN List(Append(sys.items, got.text))
  ELSE IF got.outcome = "null" THEN List(Append(sys.items, <<"No skills found">>))
  ELSE sys

\* (output.system ||= []).push(bootstrap)
PushSystem(sys, bootstrap) == List(Append(sys.items, bootstrap))

\* const bootstrap = getBootstrap(); if (!bootstrap) return; push
Inject(sys, got) ==
  IF got.outcome = "bootstrap" THEN PushSystem(sys, got.text) ELSE sys

-----------------------------------------------------------------------------
(* lib/skills-core.js: listSkills *)

\* The object listSkills maps one directory entry to.
ListedSkill(name, e) ==
  IF ~existsSync(e)
  THEN [name |-> name, description |-> <<>>, skillFile |-> Nothing]
  ELSE LET parsed == extractFrontmatter(SkillFileOf(e))
       IN  [name |-> IF parsed.name # <<>> THEN parsed.name ELSE name,
            description |-> parsed.description,
            skillFile |-> Just(name)]

\* listSkills once the root exists, listing being what readdirSync returned.
listSkills(listing, ents) ==
  LET dirs == FilterSeq(listing, {n \in Names : isDirectory(ents[n])})
  IN  Outcome("list", "returned", dirs,
              [i \in 1..Len(dirs) |-> ListedSkill(dirs[i], ents[dirs[i]])], <<>>)

-----------------------------------------------------------------------------
(* hooks/session-start.sh *)

\* find "$SKILLS_DIR" -type f -name "SKILL.md" ! -path "*/_templates/*"
HookFind(ents) ==
  {n \in Names : ents[n].kind \in {"doc", "unreadable"} /\ n # NameTemplates}

\* The path of a found file below the skills root.
PathBelowRoot(n) == n \o <<"/", "SKILL.md">>

\* ... | sort, in the C locale: the found paths in byte order.
SortPaths(S) ==
  CHOOSE f \in Orders(S) :
    \A i, j \in 1..Cardinality(S) :
      i < j => StringLess(PathBelowRoot(f[i]), PathBelowRoot(f[j]))

\* $(cat "$SKILL_FILE"): command substitution drops the trailing newlines.
RECURSIVE StripTrailingNewlines(_)
StripTrailingNewlines(t) ==
  IF t # <<>> /\ t[Len(t)] = NL THEN StripTrailingNewlines(SubSeq(t, 1, Len(t) - 1))
  ELSE t

\* BLOCK="# Source: ${RELATIVE_PATH}"$'\n'"${SKILL_CONTENT}"
HookBlock(n, text) ==
  <<"# Source: ", "skills/">> \o PathBelowRoot(n) \o <<NL>> \o StripTrailingNewlines(text)

NoSkillsDirMessage == <<"<IMPORTANT>No se encontro la carpeta skills/</IMPORTANT>">>
NoSkillFilesMessage ==
  <<"<IMPORTANT>No se encontraron archivos SKILL.md en skills/</IMPORTANT>">>

\* The second early exit of the hook.
HookNoFiles == Outcome("hook", "emitted", <<>>, <<>>, NoSkillFilesMessage)

\* The whole script: what it prints as additionalContext, or its failure when
\* cat fails under set -e.
Hook(rootKind, ents) ==
  IF rootKind # "dir"
  THEN Outcome("hook", "emitted", <<>>, <<>>, NoSkillsDirMessage)
  ELSE LET files == SortPaths(HookFind(ents))
       IN  IF files = <<>> THEN HookNoFiles
           ELSE IF \E i \in 1..Len(files) : ents[files[i]].kind # "doc"
           THEN Outcome("hook", "failed", files, <<>>, <<>>)
           ELSE LET blocks == [i \in 1..Len(files) |-> HookBlock(files[i], ents[files[i]].text)]
                    hookContent == Join(blocks, <<NL, NL>>)
                IN  Outcome("hook", "emitted", files, blocks,
                      <<"<EXTREMELY_IMPORTANT>You have local skills.", BS, "n", BS, "n">>
                        \o Escape(hookContent)
                        \o <<BS, "n", "</EXTREMELY_IMPORTANT>">>)

-----------------------------------------------------------------------------
(* Bounds *)

MaxPlainLen == 3
MaxValueLen == 3
MaxEscLen == 3
MaxEntries == 3
MaxSystem == 2

-----------------------------------------------------------------------------
(* Parser runs: one document, handed to both parsers *)

PlainAlphabet == {SP, NL, "x"}
PlainTexts == SeqsUpTo(PlainAlphabet, MaxPlainLen)

ValueAlphabet == {SP, DQ, SQ, "a"}
RawValues == SeqsUpTo(ValueAlphabet, MaxValueLen)

Bodies == {<<"H">>, <<SP, "H", NL>>}

NameLine(v) == NameKey \o <<":">> \o v
HeaderDoc(header, body) == OpenDelim \o header \o CloseDelim \o body

\* Headers that are not one well-formed name line: no colon, a colon first, a
\* name given twice, a description, an unknown key.
OddHeaders ==
  {<<"a">>,
   <<":", "a">>,
   NameLine(<<"a">>) \o <<NL>> \o NameLine(<<"b">>),
   NameLine(<<"a">>) \o <<NL>> \o DescriptionKey \o <<":", SP, DQ, "d", DQ>>,
   <<"k", ":", "v">>}

ParseTexts ==
  PlainTexts
    \cup {HeaderDoc(NameLine(v), b) : v \in RawValues, b \in Bodies}
    \cup {HeaderDoc(h, b) : h \in OddHeaders, b \in Bodies}
    \cup {OpenDelim \o NameLine(<<"a">>) \o <<NL, "H">>}

ParseIdle == file = Unreadable /\ fm = Nothing /\ stripped = Nothing
EscapeIdle == content = <<>> /\ escaped = Nothing /\ decoded = Nothing
FsIdle ==
  /\ root = "absent" /\ entries = NoEntries /\ system = Undefined
  /\ pc = "idle" /\ skillFiles = <<>> /\ raced = FALSE /\ last = NoResult

InitParse ==
  /\ file \in {Unreadable} \cup {Readable(t) : t \in ParseTexts}
  /\ fm = Nothing
  /\ stripped = Nothing
  /\ EscapeIdle
  /\ FsIdle

ParseExtract ==
  /\ fm = Nothing
  /\ fm' = Just(extractFrontmatter(file))
  /\ UNCHANGED <<file, stripped, escVars, fsVars>>

\* The plugin reads the file before it strips it: an unreadable file never
\* reaches stripFrontmatter.
ParseStrip ==
  /\ stripped = Nothing
  /\ file.readable
  /\ stripped' = Just(stripFrontmatter(file.text))
  /\ UNCHANGED <<file, fm, escVars, fsVars>>

NextParse == ParseExtract \/ ParseStrip

SpecParse == InitParse /\ [][NextParse]_vars

-----------------------------------------------------------------------------
(* Escaping runs: one CONTENT, escaped by the hook and decoded by the host *)

EscapeAlphabet == {BS, DQ, NL, "n", "a"}

InitEscape ==
  /\ content \in SeqsUpTo(EscapeAlphabet, MaxEscLen)
  /\ escaped = Nothing
  /\ decoded = Nothing
  /\ ParseIdle
  /\ FsIdle

HookEscape ==
  /\ escaped = Nothing
  /\ escaped' = Just(Escape(content))
  /\ UNCHANGED <<content, decoded, parseVars, fsVars>>

HostDecode ==
  /\ IsJust(escaped)
  /\ decoded = Nothing
  /\ decoded' = Just(JsonUnescape(The(escaped)))
  /\ UNCHANGED <<content, escaped, parseVars, fsVars>>

NextEscape == HookEscape \/ HostDecode

SpecEscape == InitEscape /\ [][NextEscape]_vars

-----------------------------------------------------------------------------
(* The adapters over a changing filesystem *)

\* Only a directory has entries, and the model keeps at most MaxEntries.
FsOk(r, ents) ==
  /\ r # "dir" => ents = NoEntries
  /\ Cardinality(PresentNames(ents)) <= MaxEntries

OtherEntry == <<"context of another source">>

Init ==
  /\ root \in {"absent", "dir", "file"}
  /\ entries \in [Names -> EntryStates]
  /\ FsOk(root, entries)
  /\ system \in {Undefined, List(<<>>)}
  /\ pc = "idle"
  /\ skillFiles = <<>>
  /\ raced = FALSE
  /\ last = NoResult
  /\ ParseIdle
  /\ EscapeIdle

\* What one filesystem call of another process turns the root into: mkdir,
\* creating a file, rm.
RootSteps(r) ==
  IF r = "absent" THEN {"dir", "file"} ELSE {"absent"}

\* What one filesystem call of another process turns skills/<name> into:
\* mkdir or creating a file; writing, removing, chmod-ing SKILL.md or making
\* it a directory; rm of the entry.
EntrySteps(e) ==
  CASE e.kind = "absent" -> {Entry("file", <<>>), Entry("nodoc", <<>>)}
    [] e.kind = "file" -> {Absent}
    [] e.kind = "nodoc" ->
         {Absent, Entry("isdir", <<>>)} \cup {Entry("doc", d) : d \in DocTexts}
    [] e.kind = "doc" -> {Absent, Entry("nodoc", <<>>), Entry("unreadable", <<>>)}
    [] e.kind = "unreadable" ->
         {Entry("nodoc", <<>>)} \cup {Entry("doc", d) : d \in DocTexts}
    [] e.kind = "isdir" -> {Entry("nodoc", <<>>)}

\* Another process changes the root or one entry; it may do so while the
\* plugin's handler is between its scan and its reads.
FsChange ==
  /\ \/ /\ root' \in RootSteps(root)
        /\ entries' = NoEntries
     \/ /\ root = "dir"
        /\ \E n \in Names : \E e \in EntrySteps(entries[n]) :
             entries' = [entries EXCEPT ![n] = e]
        /\ FsOk(root, entries')
        /\ UNCHANGED root
  /\ raced' = (pc = "loaded")
  /\ last' = NoResult
  /\ UNCHANGED <<system, pc, skillFiles, parseVars, escVars>>

\* Another source of system context appends its entry.
OtherAppend ==
  /\ pc = "idle"
  /\ Len(system.items) < MaxSystem
  /\ system' = List(Append(system.items, OtherEntry))
  /\ raced' = FALSE
  /\ last' = NoResult
  /\ UNCHANGED <<root, entries, pc, skillFiles, parseVars, escVars>>

\* The handler up to the return of loadSkillFiles: existsSync of the root,
\* readdirSync (ENOTDIR when the root is a file), the two filters.
PluginScan ==
  /\ pc = "idle"
  /\ Len(system.items) < MaxSystem
  /\ IF root = "absent"
     THEN skillFiles' = <<>> /\ pc' = "loaded" /\ last' = NoResult
     ELSE IF root = "file"
     THEN /\ skillFiles' = <<>> /\ pc' = "idle"
          /\ last' = Outcome("plugin", "threw", <<>>, <<>>, <<>>)
     ELSE \E listing \in Orders(PresentNames(entries)) :
            /\ skillFiles' = loadSkillFiles(listing, entries)
            /\ pc' = "loaded"
            /\ last' = NoResult
  /\ raced' = FALSE
  /\ UNCHANGED <<root, entries, system, parseVars, escVars>>

\* The rest of the handler: the reads, the merge, the push.
PluginInject ==
  /\ pc = "loaded"
  /\ LET got == getBootstrap(skillFiles, entries)
     IN  /\ last' = got
         /\ system' = Inject(system, got)
  /\ pc' = "idle"
  /\ skillFiles' = <<>>
  /\ UNCHANGED <<root, entries, raced, parseVars, escVars>>

\* One run of hooks/session-start.sh.  The hook and listSkills neither read
\* nor write output.system, and every filesystem state is reachable while the
\* list is still undefined: they are run there, which loses none of their
\* behaviours.
HookRun ==
  /\ pc = "idle"
  /\ system = Undefined
  /\ last' = Hook(root, entries)
  /\ raced' = FALSE
  /\ UNCHANGED <<root, entries, system, pc, skillFiles, parseVars, escVars>>

\* One call of listSkills(skillsRoot).
ListSkills ==
  /\ pc = "idle"
  /\ system = Undefined
  /\ IF root = "absent"
     THEN last' = Outcome("list", "returned", <<>>, <<>>, <<>>)
     ELSE IF root = "file"
     THEN last' = Outcome("list", "threw", <<>>, <<>>, <<>>)
     ELSE \E listing \in Orders(PresentNames(entries)) :
            last' = listSkills(listing, entries)
  /\ raced' = FALSE
  /\ UNCHANGED <<root, entries, system, pc, skillFiles, parseVars, escVars>>

Next ==
  \/ FsChange
  \/ OtherAppend
  \/ PluginScan
  \/ PluginInject
  \/ HookRun
  \/ ListSkills

Spec == Init /\ [][Next]_vars

-----------------------------------------------------------------------------
(* Properties *)

ContainsSub(text, sub) == \E i \in 1..Len(text) : StartsWithAt(text, i, sub)

Range(seq) == {seq[i] : i \in 1..Len(seq)}

\* The directories the plugin is to inject: not excluded, holding a SKILL.md.
PluginDocs(ents) ==
  {n \in Names : isDirectory(ents[n]) /\ existsSync(ents[n]) /\ ~startsWithUnderscore(n)}

\* The plugin's handler has just returned or thrown, the filesystem being now
\* what it was during the whole call.
PluginRan == last.op = "plugin" /\ ~raced

\* The name the document of skills/<n> declares, empty when it declares none.
DeclaredName(ents, n) == extractFrontmatter(SkillFileOf(ents[n])).name

C2_NullIffNoDocuments ==
  PluginRan =>
    /\ last.outcome = "null" <=> PluginDocs(entries) = {}
    /\ PluginDocs(entries) # {} => last.outcome = "bootstrap"

\* C3, as claimed: in the hook's and in the plugin's scan a skill document is
\* left out of the injected context exactly when its directory name starts
\* with an underscore.
C3_ExcludedIffUnderscore ==
  ((last.op = "hook" /\ root = "dir" /\ last.outcome = "emitted")
     \/ (PluginRan /\ last.outcome = "bootstrap")) =>
    \A n \in Names :
      entries[n].kind = "doc" =>
        (n \notin Range(last.names) <=> startsWithUnderscore(n))

\* C7, as claimed: with the root absent or without a matching document, the
\* hook prints a not-found payload, and the plugin's handler hands one to its
\* host as well (it changes output.system).
C7_BothReportNoSkills ==
  [][/\ (last'.op = "hook" /\ (root' # "dir" \/ HookFind(entries') = {})) =>
          last'.text \in {NoSkillsDirMessage, NoSkillFilesMessage}
     /\ (pc = "loaded" /\ pc' = "idle" /\ ~raced
           /\ (root # "dir" \/ PluginDocs(entries) = {})) =>
          system' # system]_vars

\* C7, amended: with the root absent or without a matching document, the hook
\* prints a not-found payload; the plugin's handler hands its host nothing:
\* it leaves output.system as it was, returning normally unless the root is
\* not a directory (where its scan throws).
C7_HookReportsPluginSilent ==
  [][/\ (last'.op = "hook" /\ (root' # "dir" \/ HookFind(entries') = {})) =>
          /\ last'.outcome = "emitted"
          /\ last'.text \in {NoSkillsDirMessage, NoSkillFilesMessage}
     /\ (pc = "loaded" /\ pc' = "idle" /\ ~raced
           /\ (root # "dir" \/ PluginDocs(entries) = {})) =>
          /\ last'.outcome = "null"
          /\ system' = system
     /\ (pc = "idle" /\ last'.op = "plugin") =>
          /\ root = "file"
          /\ system' = system]_vars

\* The handler returned silently by an existing root without documents, next
\* to another source's entry.
C7_Witness ==
  /\ PluginRan /\ last.outcome = "null"
  /\ root = "dir" /\ PluginDocs(entries) = {}
  /\ entries[NameTemplates].kind = "doc"
  /\ system = List(<<OtherEntry>>)

\* C8, as claimed: the handler never throws, whatever the filesystem holds or
\* becomes during the call.
C8_HandlerNeverThrows == last.op = "plugin" => last.outcome # "threw"

SortedByName(names) ==
  \A i, j \in 1..Len(names) : i < j => StringLess(names[i], names[j])

\* C9, as claimed: whatever order the directory listing comes in, listSkills,
\* loadSkillFiles and the hook's file list are sorted by subdirectory name.
C9_ScanSortedByName ==
  last.op \in {"list", "plugin", "hook"} => SortedByName(last.names)

\* C10: an invocation of the handler leaves output.system as it was or appends
\* exactly one string, the bootstrap, behind the entries that were there.
C10_AppendsAtMostOne ==
  [][((pc = "idle" /\ (pc' = "loaded" \/ last'.op = "plugin"))
        \/ (pc = "loaded" /\ pc' = "idle")) =>
       \/ system' = system
       \/ /\ last'.outcome = "bootstrap"
          /\ system'.defined
          /\ system'.items = Append(system.items, last'.text)]_vars

\* The bootstrap was appended behind another source's entry.
C10_Witness ==
  /\ last.op = "plugin" /\ last.outcome = "bootstrap"
  /\ system = List(<<OtherEntry, last.text>>)

-----------------------------------------------------------------------------
(* Properties of the parsers *)

ContainsDelimiter(t) == ContainsSub(t, <<"-", "-", "-">>)

\* C5, as claimed: a text without the header delimiter parses to no header
\* fields and to its trimmed self as body, in both parsers.
C5_NoDelimiterGivesTrimmedBody ==
  (file.readable /\ ~ContainsDelimiter(file.text)) =>
    /\ IsJust(fm) =>
         /\ The(fm).name = <<>>
         /\ The(fm).description = <<>>
         /\ The(fm).content = trim(file.text)
    /\ IsJust(stripped) => The(stripped) = trim(file.text)

\* The value the claim expects for the raw text after the colon: trimmed, and
\* without its quotes when it starts and ends with the same quote character.
ClaimedValue(v) ==
  LET t == trim(v)
  IN  IF Len(t) >= 2 /\ IsQuote(t[1]) /\ t[Len(t)] = t[1]
      THEN SubSeq(t, 2, Len(t) - 1) ELSE t

\* C6, as claimed: for a header of one well-formed name line, the stored value
\* loses one layer of quotes when it starts and ends with the same quote
\* character and is unchanged otherwise.  (A value that is one lone quote
\* character is left out: the claim does not say which case it is.)
C6_QuotesRemovedOnlyAsPair ==
  \A v \in RawValues, b \in Bodies :
    (file = Readable(HeaderDoc(NameLine(v), b)) /\ IsJust(fm)
       /\ trim(v) \notin {<<DQ>>, <<SQ>>}) =>
      The(fm).name = ClaimedValue(v)

-----------------------------------------------------------------------------
(* Properties of the escaping *)

\* C4: the host's JSON decoding of the hook's escaped CONTENT is CONTENT.
C4_EscapeRoundTrip ==
  IsJust(decoded) => The(decoded).ok /\ The(decoded).text = content

\* A backslash before the letter n, and a newline, went through.
C4_Witness ==
  /\ content = <<BS, "n", NL>>
  /\ IsJust(escaped) /\ The(escaped) = <<BS, BS, "n", BS, "n">>
  /\ IsJust(decoded) /\ The(decoded).text = content

====
